---- MODULE Spec2Model ----
(***************************************************************************)
(* Model of the speed-trap receiver (gpu_receiver.py) and of the frame     *)
(* producer (pi_stream.py): the length-prefixed framing over a TCP byte    *)
(* stream, the greedy tracker, the two-boundary crossing state machine,    *)
(* the speed computation and the calls to the result sinks.                *)
(*                                                                         *)
(* Floating point values are modelled as exact decimal-scaled rationals    *)
(* [n, d, e] standing for (n / d) * 10^e, so that the division by 1e9 of   *)
(* the receiver and the speed arithmetic are computed, not assumed.        *)
(***************************************************************************)
EXTENDS Integers, Sequences, FiniteSets, TLC

(* ------------------------- program constants --------------------------- *)
SPEED_LIMIT_MPH == 15
BOUNDARY_ORIENTATION == "vertical"
LINE1_POS == 250
LINE2_POS == 875
DISTANCE_FT == 50
MATCH_TOL == 100
MARGIN == 20
HEADER == 12
NANO_EXP == 9
SEC_PER_HOUR == 3600
FT_PER_MILE == 5280
ENABLE_PREVIEW == TRUE

(* ------------------------------ bounds --------------------------------- *)
\* largest track identity handed out in one session
MaxId == 1
\* number of producer connections served
MaxSessions == 2
\* frames pi_stream may have in flight (sent, not yet extracted)
MaxInFlight == 2
\* bytes of image payload of the longest frame of pi_stream
MaxPayload == 2

\* a length field no frame can honour (0x7FFFFFFF)
HugeLen == 127 * 16777216 + 16777215

(* --------------------- decimal-scaled rationals ------------------------ *)
RECURSIVE GCD(_, _)
GCD(a, b) == IF b = 0 THEN a ELSE GCD(b, a % b)

Abs(a) == IF a < 0 THEN 0 - a ELSE a

RECURSIVE Pow10(_)
Pow10(k) == IF k = 0 THEN 1 ELSE 10 * Pow10(k - 1)

Q(n, d, e) == [n |-> n, d |-> d, e |-> e]

\* Python None for start_ts
None == Q(0, 0, 0)

\* for n / d in lowest terms: make d coprime to ten and n no multiple of ten
\* by moving factors into the exponent, which gives every value one form
RECURSIVE QStrip(_)
QStrip(q) ==
    IF q.d % 2 = 0 THEN QStrip(Q(q.n * 5, q.d \div 2, q.e - 1))
    ELSE IF q.d % 5 = 0 THEN QStrip(Q(q.n * 2, q.d \div 5, q.e - 1))
    ELSE IF q.n % 10 = 0 THEN QStrip(Q(q.n \div 10, q.d, q.e + 1))
    ELSE q

\* canonical form of a value with d > 0
QNorm(q) ==
    LET g == GCD(Abs(q.n), q.d)
    IN  IF q.n = 0 THEN Q(0, 1, 0) ELSE QStrip(Q(q.n \div g, q.d \div g, q.e))

\* q / 10^k
QDivPow10(q, k) == IF q.n = 0 THEN q ELSE Q(q.n, q.d, q.e - k)

\* a - b for operands of one scale (all capture times of a session are)
QSub(a, b) ==
    IF a.n = 0 /\ b.n = 0 THEN Q(0, a.d, a.e)
    ELSE IF b.n = 0 THEN a
    ELSE IF a.n = 0 THEN Q(0 - b.n, b.d, b.e)
    ELSE Q(a.n - b.n, a.d, a.e)

QPos(q) == q.n > 0

\* c / q for an integer c and q > 0
IntDivQ(c, q) == QNorm(Q(c * q.d, q.n, 0 - q.e))

QMulInt(q, c) == QNorm(Q(q.n * c, q.d, q.e))

QDivInt(q, c) == QNorm(Q(q.n, q.d * c, q.e))

\* q <= L for an integer L >= 0 and q >= 0:  n * 10^e <= L * d
QLeqInt(q, L) ==
    IF q.e >= 0 THEN q.n <= (L * q.d) \div Pow10(q.e)
    ELSE (q.n + Pow10(0 - q.e) - 1) \div Pow10(0 - q.e) <= L * q.d

\* equality of values
QEq(a, b) ==
    IF a.n = 0 \/ b.n = 0 THEN a.n = b.n
    ELSE QNorm(a) = QNorm(b)

\* the elapsed time at which the speed is exactly the limit, LimitN / TimeDen
\* seconds in lowest terms (25/11 s); clock readings are multiples of
\* 1 / TimeDen seconds so that it can be met
LimitN ==
    (DISTANCE_FT * SEC_PER_HOUR) \div GCD(DISTANCE_FT * SEC_PER_HOUR, SPEED_LIMIT_MPH * FT_PER_MILE)
TimeDen ==
    (SPEED_LIMIT_MPH * FT_PER_MILE) \div GCD(DISTANCE_FT * SEC_PER_HOUR, SPEED_LIMIT_MPH * FT_PER_MILE)
\* clock readings (numerators) a producer stamps frames with
ClockN == {0, 1, LimitN}

(* ------------------------------ framing -------------------------------- *)
\* struct.pack("d", q): eight bytes determined by, and determining, q
PackD(q) == << q.n % 256, q.n \div 256, q.d, q.e, 0, 0, 0, 0 >>

\* struct.pack("I", k): four bytes, least significant first
PackI(k) == << k % 256, (k \div 256) % 256, (k \div 65536) % 256, k \div 16777216 >>

\* struct.pack("dI", ts, n)
Pack(ts, n) == PackD(ts) \o PackI(n)

UnpackD(b) == Q(b[1] + 256 * b[2], b[3], b[4])

UnpackI(b) == b[1] + 256 * b[2] + 65536 * b[3] + 16777216 * b[4]

\* struct.unpack("dI", b) for 12 bytes b
Unpack(b) == << UnpackD(SubSeq(b, 1, 8)), UnpackI(SubSeq(b, 9, 12)) >>

(* ------------------------- pure helper functions ----------------------- *)
\* get_dominant_color: roi is [size, h, s, v], the pixel count of the crop
\* and the HSV value of its mean colour
get_dominant_color(roi) ==
    IF roi.size = 0 THEN "Unknown"
    ELSE IF roi.s < 50 THEN
        (IF roi.v < 50 THEN "Black" ELSE IF roi.v > 100 THEN "White" ELSE "Gray")
    ELSE IF roi.h < 10 \/ roi.h >= 170 THEN "Red"
    ELSE IF roi.h < 25 THEN "Orange"
    ELSE IF roi.h < 35 THEN "Yellow"
    ELSE IF roi.h < 85 THEN "Green"
    ELSE IF roi.h < 130 THEN "Blue"
    ELSE IF roi.h < 170 THEN "Purple"
    ELSE "Unknown"

\* variant: a closed test, prev <= boundary <= curr
crossed_boundary_closed(coord_prev, coord_curr, boundary_pos) ==
    coord_prev <= boundary_pos /\ boundary_pos <= coord_curr

crossed_boundary(coord_prev, coord_curr, boundary_pos) ==
    coord_prev < boundary_pos /\ boundary_pos <= coord_curr

\* a detection is the box the detector returned and the pixels inside it
Box(x1, y1, x2, y2, hsv) == [x1 |-> x1, y1 |-> y1, x2 |-> x2, y2 |-> y2, hsv |-> hsv]

Cx(b) == (b.x1 + b.x2) \div 2
Cy(b) == (b.y1 + b.y2) \div 2

Coord(x, y) == IF BOUNDARY_ORIENTATION = "vertical" THEN x ELSE y

\* frame[y1:y2, x1:x2] handed to the classifier
Roi(b) ==
    [size |-> (IF b.y2 > b.y1 /\ b.x2 > b.x1 THEN (b.y2 - b.y1) * (b.x2 - b.x1) ELSE 0),
     h |-> b.hsv[1], s |-> b.hsv[2], v |-> b.hsv[3]]

\* variant: the lower edge of the region excluded
InRoiStrict(b) ==
    LET coord == Coord(Cx(b), Cy(b))
    IN  LINE1_POS - MARGIN < coord /\ coord <= LINE2_POS + MARGIN

\* the region-of-interest test of one detection
InRoi(b) ==
    LET coord == Coord(Cx(b), Cy(b))
    IN  LINE1_POS - MARGIN <= coord /\ coord <= LINE2_POS + MARGIN

RECURSIVE RoiFilter(_)
RoiFilter(dets) ==
    IF dets = << >> THEN << >>
    ELSE (IF InRoi(Head(dets)) THEN << Head(dets) >> ELSE << >>) \o RoiFilter(Tail(dets))

(* ------------------------------ tracker -------------------------------- *)
\* tracks[match] as created on lines 191-198, with observation fields:
\* emits, the measurements emitted for the track; below, 1 or 2 when its
\* last update took it from one short of boundary 1 or 2 onto the boundary;
\* recross, whether it crossed boundary 1 after it was finalized; low,
\* whether its coordinate has ever been before boundary 1
NewTrack(tid, b) ==
    [tid |-> tid, center |-> << Cx(b), Cy(b) >>, bbox |-> << b.x1, b.y1, b.x2, b.y2 >>,
     started |-> FALSE, start_ts |-> None, color |-> "None", logged |-> FALSE,
     emits |-> 0, below |-> 0, recross |-> FALSE,
     low |-> (Coord(Cx(b), Cy(b)) < LINE1_POS)]

\* variant: a detection matches a track however far away it is
NearAnywhere(info, cx, cy) == TRUE

\* variant: a track at exactly the tolerance matches
NearLoose(info, cx, cy) ==
    Abs(cx - info.center[1]) <= MATCH_TOL /\ Abs(cy - info.center[2]) <= MATCH_TOL

Near(info, cx, cy) ==
    Abs(cx - info.center[1]) < MATCH_TOL /\ Abs(cy - info.center[2]) < MATCH_TOL

\* variant: the scan finds nothing
FirstMatchNone(trks, cx, cy) == 0

\* the scan of lines 183-187: position of the first track, in the order of
\* the dict, within tolerance of the detection; 0 when there is none
FirstMatch(trks, cx, cy) ==
    LET hits == { i \in 1..Len(trks) : Near(trks[i], cx, cy) }
    IN  IF hits = {} THEN 0 ELSE CHOOSE i \in hits : \A j \in hits : i <= j

\* variant: no guard on logged
ShouldFinalizeAgain(started, logged, crossed2) == started /\ crossed2

\* the guard of lines 213-214
ShouldFinalize(started, logged, crossed2) == started /\ ~logged /\ crossed2

\* mph of lines 217-218
Mph(dt) == QDivInt(QMulInt(IntDivQ(DISTANCE_FT, dt), SEC_PER_HOUR), FT_PER_MILE)

\* variant: the limit itself is over the limit
StatusStrict(mph) ==
    IF ~QEq(mph, Q(SPEED_LIMIT_MPH, 1, 0)) /\ QLeqInt(mph, SPEED_LIMIT_MPH) THEN "OKAY" ELSE "SLOW DOWN!!"

Status(mph) == IF QLeqInt(mph, SPEED_LIMIT_MPH) THEN "OKAY" ELSE "SLOW DOWN!!"

\* variant: the alert is sent first, whatever the verdict
SinkCallsAlertFirst(tid, color, mph, status, ts, fail) ==
    << [op |-> "udp", tid |-> tid, color |-> color, mph |-> mph, status |-> status, ts |-> ts],
       [op |-> "log", tid |-> tid, color |-> color, mph |-> mph, status |-> status, ts |-> ts],
       [op |-> "db",  tid |-> tid, color |-> color, mph |-> mph, status |-> status, ts |-> ts] >>

\* the sink calls of lines 223-231 that complete before sink `fail` raises
SinkCalls(tid, color, mph, status, ts, fail) ==
    LET logc == [op |-> "log", tid |-> tid, color |-> color, mph |-> mph, status |-> status, ts |-> ts]
        dbc  == [op |-> "db",  tid |-> tid, color |-> color, mph |-> mph, status |-> status, ts |-> ts]
        udpc == [op |-> "udp", tid |-> tid, color |-> color, mph |-> mph, status |-> status, ts |-> ts]
    IN  IF fail = "log" THEN << >>
        ELSE IF fail = "db" THEN << logc >>
        ELSE IF status = "OKAY" THEN << logc, dbc >>
        ELSE IF fail = "udp" THEN << logc, dbc >>
        ELSE << logc, dbc, udpc >>

SinkRaises(status, fail) ==
    fail = "log" \/ fail = "db" \/ (fail = "udp" /\ status # "OKAY")

\* lines 181-198: the track detection b is matched to, created when there
\* is none; seen is what the detection could be compared with: the
\* identity, the distance on each axis and the armed flag of every track
Match(acc, b) ==
    LET m0 == FirstMatch(acc.tracks, Cx(b), Cy(b))
    IN  [tracks |-> IF m0 = 0 THEN Append(acc.tracks, NewTrack(acc.next_id, b)) ELSE acc.tracks,
         i |-> IF m0 = 0 THEN Len(acc.tracks) + 1 ELSE m0,
         created |-> (m0 = 0),
         next_id |-> IF m0 = 0 THEN acc.next_id + 1 ELSE acc.next_id,
         seen |-> { << acc.tracks[j].tid, Abs(Cx(b) - acc.tracks[j].center[1]),
                       Abs(Cy(b) - acc.tracks[j].center[2]), acc.tracks[j].started >> :
                    j \in 1..Len(acc.tracks) }]

\* variant: no guard on started
ShouldArmAgain(started, crossed1) == crossed1

\* the guard of lines 206-207
ShouldArm(started, crossed1) == ~started /\ crossed1

\* lines 199-212: move the matched track to the detection and arm it when
\* it crosses boundary 1
Arm(info, b, ts) ==
    LET coord_prev == Coord(info.center[1], info.center[2])
        coord_curr == Coord(Cx(b), Cy(b))
        x1 == crossed_boundary(coord_prev, coord_curr, LINE1_POS)
        arm == ShouldArm(info.started, x1)
    IN  [info |-> [info EXCEPT !.center = << Cx(b), Cy(b) >>,
                               !.bbox = << b.x1, b.y1, b.x2, b.y2 >>,
                               !.started = @ \/ arm,
                               !.start_ts = IF arm THEN ts ELSE @,
                               !.color = IF arm THEN get_dominant_color(Roi(b)) ELSE @,
                               !.below = IF coord_prev = LINE1_POS - 1 /\ coord_curr = LINE1_POS THEN 1
                                         ELSE IF coord_prev = LINE2_POS - 1 /\ coord_curr = LINE2_POS THEN 2
                                         ELSE 0,
                               !.recross = @ \/ (info.logged /\ x1),
                               !.low = @ \/ (coord_curr < LINE1_POS)],
         prev |-> coord_prev, curr |-> coord_curr, below |-> info.below,
         x1 |-> x1, x2 |-> crossed_boundary(coord_prev, coord_curr, LINE2_POS), armed |-> arm]

\* lines 213-231 for a track that is not finalized on this update
NoMeasure == [fin |-> FALSE, dt |-> None, mph |-> None, status |-> "None", calls |-> << >>,
              raises |-> FALSE]

\* lines 216-231: the measurement for elapsed time dt > 0
Report(info, dt, mph, ts, fail) ==
    [fin |-> TRUE, dt |-> dt, mph |-> mph, status |-> Status(mph),
     calls |-> SinkCalls(info.tid, IF info.color = "None" THEN "Unknown" ELSE info.color,
                         mph, Status(mph), ts, fail),
     raises |-> SinkRaises(Status(mph), fail)]

\* lines 215-216: the elapsed time and its test
Elapsed(info, dt, ts, fail) ==
    IF QPos(dt) THEN Report(info, dt, Mph(dt), ts, fail)
    ELSE [NoMeasure EXCEPT !.fin = TRUE, !.dt = dt]

\* lines 213-231 for the moved track info
Measure(info, x2, ts, fail) ==
    IF ShouldFinalize(info.started, info.logged, x2)
    THEN Elapsed(info, QSub(ts, info.start_ts), ts, fail)
    ELSE NoMeasure

\* line 232 and the bookkeeping of the iteration: the track a was moved to
\* becomes finalized unless a sink raised; r is what Measure made of it
Finish(acc, m, a, r) ==
    [tracks |-> [m.tracks EXCEPT ![m.i] =
                    [a.info EXCEPT !.logged = @ \/ (r.fin /\ ~r.raises),
                                   !.emits = @ + (IF r.calls # << >> THEN 1 ELSE 0)]],
     updated |-> IF \E k \in 1..Len(acc.updated) : acc.updated[k] = a.info.tid
                 THEN acc.updated ELSE Append(acc.updated, a.info.tid),
     next_id |-> m.next_id,
     log |-> Append(acc.log,
                    [tid |-> a.info.tid, created |-> m.created, seen |-> m.seen,
                     nid |-> acc.next_id, prev |-> a.prev, curr |-> a.curr, below |-> a.below,
                     x1 |-> a.x1, x2 |-> a.x2, armed |-> a.armed,
                     fin |-> r.fin, dt |-> r.dt, mph |-> r.mph, status |-> r.status,
                     wasLogged |-> m.tracks[m.i].logged, ncalls |-> Len(r.calls)]),
     calls |-> acc.calls \o r.calls,
     crashed |-> r.raises]

Moved(acc, m, a, ts, fail) == Finish(acc, m, a, Measure(a.info, a.x2, ts, fail))

Matched(acc, m, b, ts, fail) == Moved(acc, m, Arm(m.tracks[m.i], b, ts), ts, fail)

\* one iteration of the loop of lines 181-232 for detection b of a frame
\* captured at ts; acc holds tracks, updated, next_id and what was observed
ProcessDet(acc, b, ts, fail) ==
    IF acc.crashed THEN acc ELSE Matched(acc, Match(acc, b), b, ts, fail)

RECURSIVE ProcessDets(_, _, _, _)
ProcessDets(acc, dets, ts, fail) ==
    IF dets = << >> THEN acc
    ELSE ProcessDets(ProcessDet(acc, Head(dets), ts, fail), Tail(dets), ts, fail)

\* variant: the tracks no detection touched are kept
UpdatedKeepsAll(acc) == acc.tracks

\* tracks = updated (line 234): the tracks touched, in the order touched
Updated(acc) ==
    [k \in 1..Len(acc.updated) |->
        LET i == CHOOSE j \in 1..Len(acc.tracks) : acc.tracks[j].tid = acc.updated[k]
        IN  acc.tracks[i]]

(* ------------------------------- inputs -------------------------------- *)
\* centre coordinates of the boxes the detector may return: around both
\* boundaries, at the edges of the region of interest, and a path between
\* the boundaries whose steps are within the match tolerance
Xs == {229, 230, 249, 250, 251, 349, 448, 547, 646, 745, 844, 874, 875, 876, 895, 896}
\* mean colour (HSV) of the pixels inside a box
RED == << 0, 200, 200 >>

BoxAt(x, y, half) == Box(x - half, y - half, x + half, y + half, RED)

\* boxes of a frame with one object: along the lane y = 100
LaneDets == { BoxAt(x, 100, 10) : x \in Xs }

\* what the detector may return for a frame with at most one object
FrameDets == { << >> } \cup { << a >> : a \in LaneDets }

\* boxes of frames with several objects: around the first boundary, in two
\* lanes that are the match tolerance apart, and in between
NearDets ==
    { BoxAt(249, 100, 10), BoxAt(250, 100, 10), BoxAt(349, 100, 10),
      BoxAt(250, 200, 10), BoxAt(250, 199, 10) }

\* what the detector may return for a frame with up to two objects
PairDets ==
    { << >> } \cup { << a >> : a \in NearDets } \cup { << a, b >> : a \in NearDets, b \in NearDets }

\* image payloads: cv2.imdecode accepts those that start with the JPEG marker
SOI == 255
\* variant: every payload decodes to a frame
DecodableAlways(jpg) == TRUE

Decodable(jpg) == Len(jpg) > 0 /\ jpg[1] = SOI
\* an encoded image of k bytes
Jpeg(k) == [i \in 1..k |-> IF i = 1 THEN SOI ELSE 0]
\* what cv2.imencode may return in pi_stream
JpegPayloads == { Jpeg(k) : k \in 1..MaxPayload }
\* payloads of another client: one that decodes and one that does not
PeerPayloads == { << SOI >>, << 0 >> }

\* keys cv2.waitKey may report: none (255) or q
Keys == {255, 113}
\* the collaborator that raises while a frame is processed, if any
Faults == {"none", "detector", "log", "db", "udp"}
SinkFaults == {"log", "db", "udp"}

(* ------------------------------- state --------------------------------- *)
VARIABLES
    pc,        \* where the receiver is: "accept", "header", "payload", "crashed"
    session,   \* number of connections accepted so far
    producer,  \* who is connected: "none", "pi" (pi_stream.py), "peer" (another client)
    wire,      \* bytes sent by the producer and not yet read by the receiver
    eof,       \* the producer closed its end
    buffer, ts, size, next_id, tracks,   \* locals of gpu_receiver.main
    outcome,   \* how the session that just ended did so, see Outcome
    log,       \* observation: the track updates made by the step just taken
    calls,     \* observation: the sink calls made by the step just taken
    pending,   \* observation: frames sent and not yet extracted
    given,     \* observation: the identities given to tracks since the process started
    last       \* observation: the frame extracted by the step just taken, and
               \* the frame it was sent as

vars == << pc, session, producer, wire, eof, buffer, ts, size, next_id, tracks,
           outcome, log, calls, pending, given, last >>

\* how the last session that ended did so: "none" (no session has ended),
\* "closed" (zero-byte read) or "quit" (key);
\* at, have: the loop the zero-byte read came in, and the bytes buffered then
Outcome(how, at, have) == [how |-> how, at |-> at, have |-> have]

NoFrame == [stamp |-> None, payload |-> << >>, n |-> 0]
NoLast == [ts |-> None, jpg |-> << >>, sent |-> NoFrame, dets |-> << >>, decoded |-> FALSE,
           some |-> FALSE]

Init ==
    /\ pc = "accept"
    /\ session = 0
    /\ producer = "none"
    /\ wire = << >>
    /\ eof = FALSE
    /\ buffer = << >>
    /\ ts = None
    /\ size = 0
    /\ next_id = 0
    /\ tracks = << >>
    /\ outcome = Outcome("none", "none", 0)
    /\ log = << >>
    /\ calls = << >>
    /\ pending = << >>
    /\ given = {}
    /\ last = NoLast

Connected == pc \in {"header", "payload"}

\* main has returned or died: its locals are gone, the connection is closed
Ended ==
    /\ buffer' = << >> /\ ts' = None /\ size' = 0 /\ next_id' = 0 /\ tracks' = << >>
    /\ producer' = "none" /\ wire' = << >> /\ eof' = FALSE /\ pending' = << >>

\* a step that processes no frame observes nothing and creates no track
Quiet == log' = << >> /\ calls' = << >> /\ last' = NoLast /\ given' = given

(* ------------------------------ producer ------------------------------- *)
\* pi_stream.main, one iteration of the loop: stamp the frame with
\* time.time() (seconds), encode it as JPEG, send header + payload.  k is
\* the number of bytes sendall has written when the process is interrupted
\* (all of them when it is not); the finally clause then closes the socket.
PiSend(n, payload, k) ==
    /\ producer = "pi" /\ Connected /\ ~eof
    /\ Len(pending) < MaxInFlight
    /\ LET stamp == Q(n, TimeDen, 0)
           header == Pack(stamp, Len(payload))
           bytes == header \o payload
       IN  /\ k \in 1..Len(bytes)
           /\ wire' = wire \o SubSeq(bytes, 1, k)
           /\ eof' = (k < Len(bytes))
           /\ pending' = IF k < Len(bytes) THEN pending
                         ELSE Append(pending, [stamp |-> stamp, payload |-> payload, n |-> Len(payload)])
    /\ Quiet
    /\ UNCHANGED << pc, session, producer, buffer, ts, size, next_id, tracks, outcome >>

\* another client of the listening port: it stamps nanoseconds, as the
\* receiver's ts_ns expects, may send any length field and payload, and
\* sends a frame when the one before has been taken
PeerSend(n, len, payload) ==
    /\ producer = "peer" /\ Connected /\ ~eof
    /\ pending = << >>
    /\ LET stamp == Q(n, TimeDen, NANO_EXP)
           header == Pack(stamp, len)
       IN  /\ wire' = wire \o header \o payload
           /\ pending' = Append(pending, [stamp |-> stamp, payload |-> payload, n |-> len])
    /\ Quiet
    /\ UNCHANGED << pc, session, producer, eof, buffer, ts, size, next_id, tracks, outcome >>

\* the producer closes its socket (pi_stream's finally clause)
Close ==
    /\ producer # "none" /\ Connected /\ ~eof
    /\ eof' = TRUE
    /\ Quiet
    /\ UNCHANGED << pc, session, producer, wire, buffer, ts, size, next_id, tracks,
                    outcome, pending >>

(* ------------------------------ receiver ------------------------------- *)
\* variant: the identity counter goes on from where the process has got to
LocalsNextId == [buffer |-> << >>, next_id |-> Cardinality(given), tracks |-> << >>]

\* lines 130-133: the locals main starts its loop with
Locals == [buffer |-> << >>, next_id |-> 0, tracks |-> << >>]

\* main() up to the loop: accept a connection, initialise the locals
Accept(who) ==
    /\ pc = "accept" /\ session < MaxSessions
    /\ pc' = "header"
    /\ session' = session + 1
    /\ producer' = who
    /\ wire' = << >>
    /\ eof' = FALSE
    /\ buffer' = Locals.buffer
    /\ next_id' = Locals.next_id
    /\ tracks' = Locals.tracks
    /\ pending' = << >>
    /\ Quiet
    /\ ts' = None
    /\ size' = 0
    /\ UNCHANGED outcome

\* lines 136-140, recv returning k bytes
RecvHeader(k) ==
    /\ pc = "header" /\ Len(buffer) < HEADER
    /\ k \in 1..Len(wire)
    /\ buffer' = buffer \o SubSeq(wire, 1, k)
    /\ wire' = SubSeq(wire, k + 1, Len(wire))
    /\ Quiet
    /\ UNCHANGED << pc, session, producer, eof, ts, size, next_id, tracks, outcome, pending >>

\* variant: what was read past the first n bytes is dropped
RestNone(buf, n) == << >>

\* buf[n:]
Rest(buf, n) == SubSeq(buf, n + 1, Len(buf))

\* lines 141-143
ParseHeader ==
    /\ pc = "header" /\ Len(buffer) >= HEADER
    /\ LET h == Unpack(SubSeq(buffer, 1, HEADER))
       IN  /\ ts' = QDivPow10(h[1], NANO_EXP)
           /\ size' = h[2]
    /\ buffer' = Rest(buffer, HEADER)
    /\ pc' = "payload"
    /\ Quiet
    /\ UNCHANGED << session, producer, wire, eof, next_id, tracks, outcome, pending >>

\* lines 146-150, recv returning k bytes
RecvPayload(k) ==
    /\ pc = "payload" /\ Len(buffer) < size
    /\ k \in 1..Len(wire)
    /\ buffer' = buffer \o SubSeq(wire, 1, k)
    /\ wire' = SubSeq(wire, k + 1, Len(wire))
    /\ Quiet
    /\ UNCHANGED << pc, session, producer, eof, ts, size, next_id, tracks, outcome, pending >>

\* variant: the zero-byte read is not caught and ends the process
RecvEofUncaught ==
    /\ \/ pc = "header" /\ Len(buffer) < HEADER
       \/ pc = "payload" /\ Len(buffer) < size
    /\ wire = << >> /\ eof
    /\ pc' = "crashed"
    /\ Ended
    /\ Quiet
    /\ UNCHANGED << session, outcome >>

\* recv returning b"" in either loop: ConnectionAbortedError, caught on
\* line 248; main returns and the loop of line 259 calls it again
RecvEof ==
    /\ \/ pc = "header" /\ Len(buffer) < HEADER
       \/ pc = "payload" /\ Len(buffer) < size
    /\ wire = << >> /\ eof
    /\ pc' = "accept"
    /\ outcome' = Outcome("closed", pc, Len(buffer))
    /\ Ended
    /\ Quiet
    /\ UNCHANGED session

\* the track loop of lines 180-232 over the detections inside the region
TrackFrame(dets, fault) ==
    ProcessDets([tracks |-> tracks, updated |-> << >>, next_id |-> next_id,
                 log |-> << >>, calls |-> << >>, crashed |-> FALSE],
                RoiFilter(dets), ts, fault)

\* lines 151-246: extract the payload, decode, detect, filter, track,
\* measure, preview.  An exception other than ConnectionAbortedError leaves
\* main through the finally clause and ends the process.
ProcessFrame(dets, fault, key) ==
    /\ pc = "payload" /\ Len(buffer) >= size
    /\ \E acc \in { TrackFrame(dets, fault) } :
       LET jpg == SubSeq(buffer, 1, size)
           quit == ENABLE_PREVIEW /\ key \in {27, 113}
       IN  /\ Decodable(jpg) /\ fault # "detector" => acc.next_id <= MaxId + 1
           /\ last' = [ts |-> ts, jpg |-> jpg,
                       sent |-> IF pending = << >> THEN NoFrame ELSE Head(pending),
                       dets |-> IF Decodable(jpg) /\ fault # "detector" THEN dets ELSE << >>,
                       decoded |-> Decodable(jpg), some |-> TRUE]
           /\ IF ~Decodable(jpg)
              THEN /\ pc' = "header"
                   /\ buffer' = Rest(buffer, size)
                   /\ pending' = IF pending = << >> THEN pending ELSE Tail(pending)
                   /\ log' = << >> /\ calls' = << >> /\ given' = given
                   /\ UNCHANGED << tracks, next_id, outcome, producer, wire, eof, ts, size >>
              ELSE IF fault = "detector"
              THEN /\ pc' = "crashed"
                   /\ log' = << >> /\ calls' = << >> /\ given' = given
                   /\ Ended
                   /\ UNCHANGED outcome
              ELSE /\ log' = acc.log
                   /\ given' = given \cup { acc.log[k].tid : k \in { j \in 1..Len(acc.log) : acc.log[j].created } }
                   /\ calls' = acc.calls
                   /\ IF acc.crashed
                      THEN pc' = "crashed" /\ Ended /\ UNCHANGED outcome
                      ELSE IF quit
                      THEN pc' = "accept" /\ outcome' = Outcome("quit", "none", 0) /\ Ended
                      ELSE /\ pc' = "header"
                           /\ buffer' = Rest(buffer, size)
                           /\ pending' = IF pending = << >> THEN pending ELSE Tail(pending)
                           /\ tracks' = Updated(acc)
                           /\ next_id' = acc.next_id
                           /\ UNCHANGED << outcome, producer, wire, eof, ts, size >>
    /\ UNCHANGED session

(* --------------------------- specifications --------------------------- *)
\* the inputs of ProcessFrame that lead to different steps, for a detector
\* that returns one of FD: the detections matter only for a decodable frame,
\* a sink fault only when a measurement is emitted, the key only when the
\* frame gets as far as the preview
FrameInputs(FD) ==
    IF pc = "payload" /\ Len(buffer) >= size /\ Decodable(SubSeq(buffer, 1, size))
    THEN { << << >>, "detector", 255 >> }
         \cup { << d, "none", k >> : d \in FD, k \in Keys }
         \cup { << d, f, 255 >> : d \in { e \in FD : TrackFrame(e, "none").calls # << >> },
                                   f \in SinkFaults }
    ELSE { << << >>, "none", 255 >> }

Process(FD) == \E in \in FrameInputs(FD) : ProcessFrame(in[1], in[2], in[3])

\* the first connection of the process
First(who) == session = 0 /\ Accept(who)

\* reads deliver what has arrived, whole or, while nothing is tracked yet,
\* cut after the header (the read loops do not look at the tracks)
SegmentSizes ==
    {Len(wire)} \cup (IF Len(wire) > HEADER /\ tracks = << >> THEN {HEADER} ELSE {})

\* what a client sends: well-formed frames, or a header whose length field
\* is huge
PeerFrames ==
    { << n, 1, << SOI >> >> : n \in ClockN }
    \cup { << 0, Len(p), p >> : p \in PeerPayloads }
    \cup { << 0, HugeLen, << SOI >> >> }

\* the receiver serving its first client, one that may send any header,
\* with one object in view
Next ==
    \/ First("peer")
    \/ \E f \in PeerFrames : PeerSend(f[1], f[2], f[3])
    \/ Close
    \/ \E k \in SegmentSizes : RecvHeader(k)
    \/ ParseHeader
    \/ \E k \in SegmentSizes : RecvPayload(k)
    \/ RecvEof
    \/ Process(FrameDets)

Spec == Init /\ [][Next]_vars

\* frames of a client whose clock stands still
StillFrames == { << 0, 1, << SOI >> >> }

\* the receiver serving one client after the other, with up to two objects
\* in view, near the first boundary
NextPair ==
    \/ Accept("peer")
    \/ \E f \in StillFrames : PeerSend(f[1], f[2], f[3])
    \/ Close
    \/ \E k \in SegmentSizes : RecvHeader(k)
    \/ ParseHeader
    \/ \E k \in SegmentSizes : RecvPayload(k)
    \/ RecvEof
    \/ Process(PairDets)

SpecPair == Init /\ [][NextPair]_vars

\* clock readings (numerators) of pi_stream
PiClockN == {1}
\* where an interrupted sendall may stop: inside the header, after it
CutPoints == {5, HEADER}

\* what the detector may return for the frames of the stream check
StreamDets == { << >>, << BoxAt(LINE1_POS, 100, 10) >> }

\* the receiver fed by pi_stream.py, its first client, over a transport
\* that may cut the byte stream anywhere
NextStream ==
    \/ First("pi")
    \/ \E n \in PiClockN, p \in JpegPayloads : \E k \in CutPoints \cup {HEADER + Len(p)} :
          PiSend(n, p, k)
    \/ Close
    \/ \E k \in 1..Len(wire) : RecvHeader(k)
    \/ ParseHeader
    \/ \E k \in 1..Len(wire) : RecvPayload(k)
    \/ RecvEof
    \/ Process(StreamDets)

SpecStream == Init /\ [][NextStream]_vars

(* ------------------------------ properties ----------------------------- *)
Min(a, b) == IF a <= b THEN a ELSE b
Max(a, b) == IF a <= b THEN b ELSE a

QMul(a, b) == QNorm(Q(a.n * b.n, a.d * b.d, a.e + b.e))

\* n * 10^e scaled so that both sides of a comparison stay integers
Up(q) == q.n * (IF q.e > 0 THEN Pow10(q.e) ELSE 1)
Down(q) == q.d * (IF q.e < 0 THEN Pow10(0 - q.e) ELSE 1)

\* the update of the track that was given identity tid, if it is still tracked
Tracked(tid) == { tracks[i] : i \in { j \in 1..Len(tracks) : tracks[j].tid = tid } }

\* C1: a track emits at most one measurement, and an update of a track that
\* is already finalized emits nothing, whatever boundaries it crosses
C1_AtMostOneMeasurement ==
    /\ \A i \in 1..Len(tracks) : tracks[i].emits <= 1
    /\ \A k \in 1..Len(log) : log[k].wasLogged => log[k].ncalls = 0

\* a finalized track, measured once, that crossed boundary 1 again and now
\* crosses boundary 2 again
C1_Witness ==
    \E k \in 1..Len(log) :
        /\ log[k].wasLogged /\ log[k].x2
        /\ \E t \in Tracked(log[k].tid) : t.recross /\ t.emits = 1

\* C2 as claimed: a boundary-2 crossing of an armed track with a non-positive
\* elapsed time emits nothing and leaves the track armed, not finalized
C2_StaysArmed ==
    \A k \in 1..Len(log) :
        (log[k].fin /\ ~QPos(log[k].dt)) =>
            /\ log[k].ncalls = 0
            /\ \A t \in Tracked(log[k].tid) : t.started /\ ~t.logged

\* C3: over the coordinates boundary-1, boundary, boundary+1 the crossing
\* test of that boundary holds on the first update and not on the second
C3_HalfOpen ==
    \A k \in 1..Len(log) :
        LET u == log[k]
        IN  /\ (u.prev = LINE1_POS - 1 /\ u.curr = LINE1_POS) => u.x1
            /\ (u.prev = LINE2_POS - 1 /\ u.curr = LINE2_POS) => u.x2
            /\ (u.below = 1 /\ u.prev = LINE1_POS /\ u.curr = LINE1_POS + 1) => ~u.x1
            /\ (u.below = 2 /\ u.prev = LINE2_POS /\ u.curr = LINE2_POS + 1) => ~u.x2

\* an armed track that went boundary2 - 1, boundary2, boundary2 + 1
C3_Witness ==
    \E k \in 1..Len(log) :
        /\ log[k].below = 2 /\ log[k].prev = LINE2_POS /\ log[k].curr = LINE2_POS + 1
        /\ \E t \in Tracked(log[k].tid) : t.started /\ t.logged

\* C4 as claimed: the frame the receiver extracts has the capture time and
\* the payload pi_stream sent
C4_RoundTrip ==
    last.some => (QEq(last.ts, last.sent.stamp) /\ last.jpg = last.sent.payload)

\* C5: a measurement with positive elapsed time has
\* speed * elapsed * 5280 = distance * 3600; the verdict is OKAY exactly when
\* speed <= limit, in particular at the limit, and not for a smaller elapsed
\* time; the alert is sent exactly for the other verdict
C5_SpeedAndVerdict ==
    \A k \in 1..Len(log) :
        LET u == log[k]
            alerts == { j \in 1..Len(calls) : calls[j].op = "udp" /\ calls[j].tid = u.tid }
        IN  (u.fin /\ QPos(u.dt)) =>
            /\ QEq(QMulInt(QMul(u.mph, u.dt), FT_PER_MILE), Q(DISTANCE_FT * SEC_PER_HOUR, 1, 0))
            /\ (u.status = "OKAY") <=> (Up(u.mph) <= SPEED_LIMIT_MPH * Down(u.mph))
            /\ QEq(u.mph, Q(SPEED_LIMIT_MPH, 1, 0)) => u.status = "OKAY"
            /\ (Up(u.dt) * SPEED_LIMIT_MPH * FT_PER_MILE < DISTANCE_FT * SEC_PER_HOUR * Down(u.dt))
                   => u.status = "SLOW DOWN!!"
            /\ pc # "crashed" => ((alerts # {}) <=> (u.status # "OKAY"))
            /\ Cardinality(alerts) <= 1

\* a measurement at exactly the limit
C5_Witness ==
    \E k \in 1..Len(log) :
        /\ log[k].fin /\ QPos(log[k].dt)
        /\ QEq(log[k].mph, Q(SPEED_LIMIT_MPH, 1, 0)) /\ log[k].status = "OKAY"

InBand(b) ==
    LET coord == Coord(Cx(b), Cy(b))
    IN  /\ Min(LINE1_POS, LINE2_POS) - MARGIN <= coord
        /\ coord <= Max(LINE1_POS, LINE2_POS) + MARGIN

\* C6: the detections handed to the tracker are exactly those of the frame
\* whose coordinate is in [min(line1, line2) - margin, max(line1, line2) + margin]
C6_RegionFilter ==
    (last.some /\ last.decoded /\ pc # "crashed") =>
        LET kept == SelectSeq(last.dets, InBand)
        IN  /\ Len(log) = Len(kept)
            /\ \A k \in 1..Len(kept) : log[k].curr = Coord(Cx(kept[k]), Cy(kept[k]))

\* a detection at line1 - margin - 1 was dropped
C6_Witness ==
    /\ last.some /\ last.decoded /\ pc # "crashed"
    /\ \E k \in 1..Len(last.dets) :
          Coord(Cx(last.dets[k]), Cy(last.dets[k])) = LINE1_POS - MARGIN - 1
    /\ log = << >>

Within(u) == { t \in u.seen : t[2] < MATCH_TOL /\ t[3] < MATCH_TOL }

\* C7: a detection with no track within tolerance on both axes starts a
\* track with the identity next_id; one with exactly one such track updates
\* that track
C7_TrackIdentity ==
    \A k \in 1..Len(log) :
        LET u == log[k]
        IN  /\ Within(u) = {} => (u.created /\ u.tid = u.nid /\ \A t \in u.seen : t[1] # u.tid)
            /\ Cardinality(Within(u)) = 1 => (~u.created /\ \E t \in Within(u) : t[1] = u.tid)

\* two tracks in the map, one of them within tolerance, and it is updated
C7_Witness ==
    \E k \in 1..Len(log) :
        /\ Cardinality(log[k].seen) = 2 /\ Cardinality(Within(log[k])) = 1
        /\ ~log[k].created

FrameBytes(f) == Pack(f.stamp, f.n) \o f.payload

RECURSIVE Flat(_)
Flat(frames) == IF frames = << >> THEN << >> ELSE FrameBytes(Head(frames)) \o Flat(Tail(frames))

IsPrefix(a, b) == Len(a) <= Len(b) /\ SubSeq(b, 1, Len(a)) = a

\* what the receiver makes of a frame that arrives in one read
WholeRead(f) ==
    LET h == Unpack(SubSeq(FrameBytes(f), 1, HEADER))
    IN  [ts |-> QDivPow10(h[1], NANO_EXP), jpg |-> SubSeq(FrameBytes(f), HEADER + 1, HEADER + h[2])]

\* C8: however the stream is cut into reads, each frame extracted is the
\* next frame sent, as it would be read whole, and the bytes sent and not yet
\* extracted are all in the buffer and on the wire, in order
C8_AnyChunking ==
    /\ last.some =>
          /\ last.sent # NoFrame
          /\ last.ts = WholeRead(last.sent).ts
          /\ last.jpg = WholeRead(last.sent).jpg
    /\ pc = "header" => IsPrefix(Flat(pending), buffer \o wire)
    /\ (pc = "payload" /\ pending # << >>) =>
          IsPrefix(Head(pending).payload \o Flat(Tail(pending)), buffer \o wire)

\* a frame was extracted and the buffer holds the first bytes of the next
C8_Witness ==
    /\ last.some /\ pc = "header"
    /\ Len(buffer) \in 1..(HEADER - 1)
    /\ pending # << >>

\* the receiver is blocked in recv, nothing is left to read and the producer
\* has closed, in the middle of a header or of a payload
MidFrameEof ==
    /\ wire = << >> /\ eof
    /\ \/ pc = "header" /\ Len(buffer) \in 1..(HEADER - 1)
       \/ pc = "payload" /\ Len(buffer) < size

\* C9: a zero-byte read in the middle of a frame ends the session as
\* connection closed, extracts no frame, updates no track, calls no sink
C9_ClosedMidFrame ==
    [][MidFrameEof =>
         /\ pc' = "accept" /\ outcome'.how = "closed"
         /\ ~last'.some /\ log' = << >> /\ calls' = << >>]_vars

\* a session that ended on a zero-byte read inside a header
C9_Witness ==
    /\ pc = "accept" /\ outcome.how = "closed"
    /\ outcome.at = "header" /\ outcome.have \in 1..(HEADER - 1)

\* C10 as claimed: a header whose length field is huge fails the connection;
\* the receiver is never in the payload loop, all that was sent read and
\* buffered, waiting for the rest of that many bytes
C10_FailsFast ==
    ~(pc = "payload" /\ size >= HugeLen /\ wire = << >> /\ Len(buffer) > 0)

\* the receiver is blocked in recv with nothing left to read and the
\* producer has closed: the next read returns zero bytes
ZeroByteRead ==
    /\ wire = << >> /\ eof
    /\ \/ pc = "header" /\ Len(buffer) < HEADER
       \/ pc = "payload" /\ Len(buffer) < size

\* C11: a zero-byte read takes the process back to accepting, with the
\* tracks and the buffer of the connection gone, and the session of the next
\* connection starts with no track, an empty buffer and the identity
\* counter at 0
C11_FreshSession ==
    [][/\ ZeroByteRead => (pc' = "accept" /\ tracks' = << >> /\ buffer' = << >>)
       /\ (pc = "accept" /\ pc' # "accept") =>
              (pc' = "header" /\ tracks' = << >> /\ buffer' = << >> /\ next_id' = 0)]_vars

\* the second connection, accepted after the first one, which had tracks,
\* was closed, creates its first track: it sees no other track and is track 0
C11_Witness ==
    /\ session = 2 /\ outcome.how = "closed"
    /\ Len(log) = 1 /\ log[1].created /\ log[1].seen = {} /\ log[1].tid = 0
    /\ Cardinality(given) > 1

\* C12 as claimed: no track is created with an identity that a track of the
\* process, of this or of an earlier connection, was given before
C12_UniqueIds ==
    [][\A k \in 1..Len(log') : log'[k].created => log'[k].tid \notin given]_vars

\* C13: the sink calls of a frame come per measurement as log append, then
\* status upsert with the same colour, speed and verdict, then, exactly when
\* the verdict is not OKAY, one alert; the colour is the one sampled for the
\* track, and every measurement makes these calls
C13_SinkOrder ==
    /\ \A k \in 1..Len(calls) :
          LET c == calls[k]
          IN  /\ c.op = "log" => (k = 1 \/ calls[k - 1].op # "log")
              /\ c.op = "db" => (k > 1 /\ calls[k - 1] = [c EXCEPT !.op = "log"])
              /\ c.op = "udp" =>
                     (k > 1 /\ calls[k - 1] = [c EXCEPT !.op = "db"] /\ c.status # "OKAY")
              /\ (c.op = "db" /\ c.status = "OKAY") => (k = Len(calls) \/ calls[k + 1].op = "log")
              /\ (c.op = "db" /\ c.status # "OKAY" /\ pc # "crashed") =>
                     (k < Len(calls) /\ calls[k + 1].op = "udp")
              /\ \A t \in Tracked(c.tid) :
                     c.color = (IF t.color = "None" THEN "Unknown" ELSE t.color)
    /\ \A k \in 1..Len(log) :
          (log[k].fin /\ QPos(log[k].dt) /\ pc # "crashed") => log[k].ncalls >= 2

\* a measurement over the limit: log append, status upsert, alert
C13_Witness ==
    /\ pc = "header" /\ Len(calls) = 3
    /\ calls[1].op = "log" /\ calls[2].op = "db" /\ calls[3].op = "udp"
    /\ calls[3].status = "SLOW DOWN!!"

\* C14 as claimed: no failure of the detector or of a sink ends the process
C14_Absorbed == pc # "crashed"

\* C15: an update that arms a track does not finalize it: the track ends the
\* update armed and not logged
C15_ArmedNotFinalized ==
    \A k \in 1..Len(log) :
        log[k].armed =>
            /\ ~log[k].fin /\ ~log[k].x2 /\ log[k].ncalls = 0
            /\ \A t \in Tracked(log[k].tid) : t.started /\ ~t.logged

\* a track armed by an update that took it from the lower edge of the region
\* past boundary 1
C15_Witness ==
    \E k \in 1..Len(log) :
        /\ log[k].armed /\ log[k].prev = LINE1_POS - MARGIN /\ log[k].curr > LINE1_POS
        /\ \E t \in Tracked(log[k].tid) : t.started /\ ~t.logged

\* C16: after a decodable frame the track map holds exactly the tracks its
\* detections matched or created, each once; a track created by the frame
\* has an identity no track in the map had and none of the armed state
C16_OnlyTouchedTracks ==
    (last.some /\ last.decoded /\ pc = "header") =>
        /\ { tracks[i].tid : i \in 1..Len(tracks) } = { log[k].tid : k \in 1..Len(log) }
        /\ \A i, j \in 1..Len(tracks) : tracks[i].tid = tracks[j].tid => i = j
        /\ \A k \in 1..Len(log) :
              log[k].created =>
                  /\ \A o \in log[k].seen : o[1] # log[k].tid
                  /\ \A t \in Tracked(log[k].tid) :
                         ~t.started /\ t.start_ts = None /\ t.color = "None" /\ ~t.logged

\* an armed track was in the map, the detection of the frame was out of its
\* reach and created a track: the armed track is gone, the new one unarmed
C16_Witness ==
    /\ last.some /\ last.decoded /\ pc = "header"
    /\ Len(log) = 1 /\ log[1].created /\ Len(tracks) = 1
    /\ \E o \in log[1].seen : o[4] /\ o[1] # tracks[1].tid

\* the payload of the frame is complete and does not start as an image
Garbled == pc = "payload" /\ Len(buffer) >= size /\ size > 0 /\ buffer[1] # SOI

C18_ArmsOnce ==
    [][\A i \in 1..Len(tracks), j \in 1..Len(tracks') :
           tracks[i].tid = tracks'[j].tid =>
               LET a == tracks[i]
                   b == tracks'[j]
                   arms == { k \in 1..Len(log') : log'[k].tid = a.tid /\ log'[k].armed }
               IN  /\ ~a.started => (a.start_ts = None /\ a.color = "None")
                   /\ a.started =>
                          /\ b.started /\ b.start_ts = a.start_ts /\ b.color = a.color
                          /\ arms = {}
                   /\ (~a.started /\ b.started) =>
                          (b.start_ts = ts /\ b.color # "None" /\ Cardinality(arms) = 1)]_vars

\* a finalized track crossed boundary 1 again, on a frame captured at another
\* time than the one that armed it
C18_Witness ==
    \E k \in 1..Len(log) :
        /\ log[k].x1 /\ ~log[k].armed
        /\ \E t \in Tracked(log[k].tid) : t.recross /\ t.started /\ t.start_ts # ts

\* the detections of the frame just processed are within tolerance of each
\* other on both axes
NearEachOther(d1, d2) ==
    Abs(Cx(d1) - Cx(d2)) < MATCH_TOL /\ Abs(Cy(d1) - Cy(d2)) < MATCH_TOL

\* C19: when the first of two detections of a frame creates a track, the
\* second is within tolerance of the first and of no track that was there
\* before, the second is given the track of the first, with the coordinate of
\* the first as its previous coordinate, and the frame ends with one track
\* for the two
C19_SameFrameMatch ==
    (Len(last.dets) = 2 /\ Len(log) = 2 /\ log[1].created
        /\ NearEachOther(last.dets[1], last.dets[2])
        /\ \A o \in log[2].seen :
               o[1] # log[1].tid => ~(o[2] < MATCH_TOL /\ o[3] < MATCH_TOL)) =>
        /\ ~log[2].created /\ log[2].tid = log[1].tid
        /\ log[2].prev = log[1].curr
        /\ pc = "header" => (Len(tracks) = 1 /\ tracks[1].tid = log[1].tid)

\* two detections one pixel apart on either side of boundary 1: the second
\* arms the track the first created
C19_Witness ==
    /\ Len(last.dets) = 2 /\ Len(log) = 2 /\ log[1].created /\ pc = "header"
    /\ log[2].tid = log[1].tid /\ log[2].prev = LINE1_POS - 1 /\ log[2].armed
    /\ Len(tracks) = 1 /\ tracks[1].started

\* C20: the detection that creates a track leaves it where it is, neither
\* armed nor finalized; a track is armed only if its coordinate has been
\* before boundary 1; a measurement is emitted by an update that neither
\* creates nor arms the track, for a frame captured after the arming one
C20_NeverOnCreation ==
    /\ \A k \in 1..Len(log) :
          /\ log[k].created =>
                 /\ log[k].prev = log[k].curr
                 /\ ~log[k].x1 /\ ~log[k].x2 /\ ~log[k].armed /\ ~log[k].fin
                 /\ log[k].ncalls = 0
          /\ log[k].ncalls > 0 =>
                 /\ ~log[k].created /\ ~log[k].armed /\ QPos(log[k].dt)
                 /\ \A t \in Tracked(log[k].tid) :
                        t.started /\ t.low /\ QPos(QSub(ts, t.start_ts))
    /\ \A i \in 1..Len(tracks) :
          (tracks[i].started \/ tracks[i].emits > 0) => tracks[i].low

\* a track first seen past boundary 1 passes boundary 2: it is not armed and
\* nothing is measured
C20_Witness ==
    \E k \in 1..Len(log) :
        /\ log[k].x2 /\ ~log[k].fin /\ log[k].ncalls = 0
        /\ \E t \in Tracked(log[k].tid) : ~t.started /\ ~t.low /\ ~t.logged

====
